---- MODULE Spec2Model ----
(***************************************************************************)
(* A model of convert() in src/main.js: the donor skeleton is grafted into *)
(* the scene, deny-listed joints are pruned, inverse bind matrices are     *)
(* recomputed, animations are filtered, the nodes are put into T-pose, the *)
(* mesh nodes are flattened and rigidly skinned, and (optionally) all      *)
(* primitives are packed into one atlas.                                   *)
(*                                                                         *)
(* Nodes are integers: 1..n are the nodes of the main scene, n+1..n+d the  *)
(* nodes of the donor scene, 0 stands for null/undefined.  A transform is  *)
(* a one-dimensional similarity [t, r, s]: x |-> s*x + t with a quarter    *)
(* turn counter r, s in {1,-1}; translations are integers in units of      *)
(* 1/ScaleDen so that the uniform scale 0.0352 is exact on them.           *)
(***************************************************************************)
EXTENDS Integers, Sequences, FiniteSets, TLC

\* ---------------------------------------------------------------- bounds
MaxNodes == 3
MaxJoints == 3
MaxAnims == 2
MaxChannels == 2

\* ------------------------------------------------------ program constants
\* const scale = 0.032 * 1.1  (= 0.0352 = ScaleNum / ScaleDen)
ScaleNum == 22
ScaleDen == 625
\* new Uint8Array(...): one joint index is stored in 8 bits
JointBits == 8

None == 0
Undefined == -1

Identity == [t |-> 0, r |-> 0, s |-> 1]

\* parent * local
Compose(P, L) == [t |-> P.t + P.s * L.t, r |-> (P.r + L.r) % 4, s |-> P.s * L.s]

\* mat4.invert
Invert(M) == [t |-> (0 - M.s) * M.t, r |-> (4 - M.r) % 4, s |-> M.s]

\* vec3.scale(out, v, scale)
ScaleVec(v) == (v * ScaleNum) \div ScaleDen

\* String.prototype.endsWith
EndsWith(str, suffix) ==
    /\ Len(str) >= Len(suffix)
    /\ SubSeq(str, Len(str) - Len(suffix) + 1, Len(str)) = suffix

\* Math.ceil(Math.sqrt(k))
CeilSqrt(k) == CHOOSE g \in 0..k : g * g >= k /\ \A h \in 0..k : h * h >= k => g <= h

RECURSIVE Pow2(_)
Pow2(e) == IF e = 0 THEN 1 ELSE 2 * Pow2(e - 1)

\* a store into a Uint8Array element
ToUint8(v) == v % Pow2(JointBits)

\* data/joints-map.json: mesh-ancestor node name -> joint name
JointsTuples ==
    [nm \in {"Hips-Global", "Tail-Global", "Hand-Global"} |->
        CASE nm = "Hips-Global" -> "hips"
          [] nm = "Tail-Global" -> "tail"
          [] nm = "Hand-Global" -> "hand"]

\* data/t-pose.json: node name -> canonical pose
TPoseData ==
    [nm \in {"Hips-Global"} |-> [position |-> 900, rotation |-> 0]]

\* a lookup obj[key] in a plain object; Undefined when the key is absent
Lookup(obj, key) == IF key \in DOMAIN obj THEN obj[key] ELSE Undefined

\* obj[key] used as a property name: an absent key reads "undefined"
LookupKey(obj, key) == IF key \in DOMAIN obj THEN obj[key] ELSE "undefined"

VARIABLES
    input,          \* the loaded documents and data files (never modified)
    pc,             \* the position in convert()
    err,            \* the error that aborted convert(), or "none"
    nodes,          \* the collected node list of the main scene
    parent,         \* node -> parent node (None: a scene child or an orphan)
    sceneKids,      \* the children of the main scene
    donorKids,      \* the children of the donor scene
    disposed,       \* the disposed nodes
    local,          \* node -> local transform
    skeleton,       \* skin.getSkeleton()
    joints,         \* skin.listJoints()
    ibm,            \* the skin's inverse bind matrices
    jointsIndex,    \* joint name -> index in the joint list
    anims,          \* the animations of the document
    i,              \* the index of the running outer loop
    c,              \* the index of the channel loop
    bound,          \* node -> the joint index it was skinned to, or Undefined
    attrs,          \* <<mesh, p>> -> the JOINTS_0 / WEIGHTS_0 arrays
    baked,          \* mesh -> the matrices transformMesh applied to it
    allPrimitives,  \* the primitives collected for the merge
    atlasWidth,     \* the side of the atlas grid
    uvRemaps,       \* <<mesh, p>> -> the slots its UVs were remapped with
    composites,     \* <<mesh, p>> -> the slots its textures were copied to
    written         \* the output file was written

vars == <<input, pc, err, nodes, parent, sceneKids, donorKids, disposed, local,
          skeleton, joints, ibm, jointsIndex, anims, i, c, bound, attrs, baked,
          allPrimitives, atlasWidth, uvRemaps, composites, written>>

\* ---------------------------------------------------------------- inputs
\* the ancestors of node nd under the parent function p, nearest first
RECURSIVE Chain(_, _)
Chain(p, nd) == IF p[nd] = None THEN <<>> ELSE <<p[nd]>> \o Chain(p, p[nd])

\* The forests over k nodes, the nodes numbered in pre-order (children in
\* listed order): a node hangs under its predecessor, under an ancestor of
\* its predecessor, or under the scene.
Forests(k) ==
    {p \in [1..k -> 0..k] :
        /\ k > 0 => p[1] = None
        /\ \A j \in 2..k : p[j] = None \/ p[j] = j - 1
                             \/ \E a \in 1..Len(Chain(p, j - 1)) : Chain(p, j - 1)[a] = p[j]}

\* A node's local transform in the loaded file.
LocalInit(nd) ==
    [t |-> ScaleDen * (nd % 3), r |-> nd % 4, s |-> IF nd % 2 = 0 THEN 0 - 1 ELSE 1]

\* The first keyframe value of every sampler in the loaded file.
KeyframeInit == ScaleDen * ScaleDen

\* channel k of an animation reads sampler SamplerOf(k): two channels share one
SamplerOf(k) == (k + 1) \div 2

Paths == {"translation", "rotation", "scale"}

MkAnimation(chs) ==
    [alive    |-> TRUE,
     channels |-> [k \in 1..Len(chs) |->
                     [id |-> k, target |-> chs[k][1], path |-> chs[k][2],
                      sampler |-> SamplerOf(k)]],
     samplers |-> [q \in 1..SamplerOf(Len(chs)) |-> KeyframeInit]]

\* The merged document: main scene data, donor scene data (donor parents are
\* relative to the donor's first node), the deny list and the animations.
Doc(mParent, mName, mMesh, dParent, dName, dEmpty, deny, chanSeqs, merge) ==
    LET n == Len(mParent)
        d == Len(dParent)
        par == [nd \in 1..(n + d) |->
                  IF nd <= n THEN mParent[nd]
                  ELSE IF dParent[nd - n] = 0 THEN None ELSE n + dParent[nd - n]]
    IN  [n          |-> n,
         d          |-> d,
         name       |-> [nd \in 1..(n + d) |-> IF nd <= n THEN mName[nd] ELSE dName[nd - n]],
         parent     |-> par,
         mesh       |-> [nd \in 1..(n + d) |-> IF nd <= n THEN mMesh[nd] ELSE None],
         local      |-> [nd \in 1..(n + d) |-> LocalInit(nd)],
         sceneKids  |-> {nd \in 1..n : par[nd] = None},
         donorKids  |-> IF dEmpty THEN <<>>
                        ELSE SelectSeq([j \in 1..d |-> n + j], LAMBDA nd : par[nd] = None),
         joints     |-> [j \in 1..d |-> n + j],
         deny       |-> deny,
         anims      |-> [a \in 1..Len(chanSeqs) |-> MkAnimation(chanSeqs[a])],
         merge      |-> merge]

\* A typical avatar: World-Global > Controller-Global > Hips-Global > {Body, Deco-Local}
MainParent == <<0, 1, 2, 3, 3>>
MainName(ctrl) == <<"World-Global", ctrl, "Hips-Global", "Body", "Deco-Local">>
MainMesh == <<0, 0, 0, 1, 0>>

\* A typical donor skeleton: root > hips > tail
DonorParent == <<0, 1, 2>>
DonorName == <<"root", "hips", "tail">>
DenyDefault == <<"tail", "ghost">>
\* one animation: the translation of node 2 and the rotation of node 3
AnimsDefault == << <<(<<2, "translation">>), (<<3, "rotation">>)>> >>

\* Family 1: every main scene of MaxNodes nodes
\* a node is a <<name, mesh>>; mesh m has m primitives, 0 is no mesh
NodeKinds == {<<"Hips-Global", 0>>, <<"Tail-Global", 0>>, <<"Deco-Local", 0>>,
              <<"Body", 1>>, <<"Body", 2>>}
TreeInputs ==
    {Doc(p, [j \in 1..MaxNodes |-> k[j][1]], [j \in 1..MaxNodes |-> k[j][2]],
         DonorParent, DonorName, FALSE, DenyDefault, AnimsDefault, TRUE) :
        p \in Forests(MaxNodes), k \in [1..MaxNodes -> NodeKinds]}

\* Family 2: every donor skeleton of MaxJoints joints, with several deny lists
JointNames == {"hips", "tail", "spine"}
DenyLists == {<<>>, <<"tail", "ghost">>, <<"hips", "tail">>}
SkinInputs ==
    {Doc(MainParent, MainName("Controller-Global"), MainMesh,
         p, nm, e, dl, AnimsDefault, FALSE) :
        p \in Forests(MaxJoints), nm \in [1..MaxJoints -> JointNames],
        e \in BOOLEAN, dl \in DenyLists}

\* Family 3: up to MaxAnims animations holding up to MaxChannels channels in all
\* a channel targets node 2 (the controller) or node 3
ChanKinds == {2, 3} \X Paths
\* the channels of an avatar that has no node named Controller-Global
ChanKindsNoRoot == {2} \X Paths
RECURSIVE SumSeq(_)
SumSeq(s) == IF s = <<>> THEN 0 ELSE Head(s) + SumSeq(Tail(s))
Split(flat, lens) ==
    [a \in 1..Len(lens) |->
        SubSeq(flat, SumSeq(SubSeq(lens, 1, a - 1)) + 1, SumSeq(SubSeq(lens, 1, a)))]
ChanLayouts ==
    {l \in UNION {[1..k -> 0..MaxChannels] : k \in 0..MaxAnims} : SumSeq(l) <= MaxChannels}
AnimsOver(kinds) ==
    UNION {{Split(f, l) : f \in [1..SumSeq(l) -> kinds]} : l \in ChanLayouts}
AnimInputs ==
    {Doc(MainParent, MainName("Controller-Global"), MainMesh, DonorParent, DonorName,
         FALSE, DenyDefault, chs, FALSE) : chs \in AnimsOver(ChanKinds)}
    \cup
    {Doc(MainParent, MainName("Controller"), MainMesh, DonorParent, DonorName,
         FALSE, DenyDefault, chs, FALSE) : chs \in AnimsOver(ChanKindsNoRoot)}

\* Family 4: a donor skeleton with more joints than one byte can index; the
\* joint "hips" is the last one
ManyJoints == Pow2(JointBits) + 1
BigInputs ==
    {Doc(MainParent, MainName("Controller-Global"), MainMesh,
         [j \in 1..ManyJoints |-> IF j = 1 THEN 0 ELSE 1],
         [j \in 1..ManyJoints |-> IF j = ManyJoints THEN "hips" ELSE "j" \o ToString(j)],
         FALSE, DenyDefault, AnimsDefault, FALSE)}

Inputs == TreeInputs \cup SkinInputs \cup AnimInputs \cup BigInputs

Prims(m) == {<<m, p>> : p \in 1..m}
AllPrims(doc) == UNION {Prims(doc.mesh[nd]) : nd \in 1..doc.n}
MeshIds(doc) == {doc.mesh[nd] : nd \in 1..doc.n} \ {None}

Init ==
    \E doc \in Inputs :
        /\ input = doc
        /\ pc = "collect"
        /\ err = "none"
        /\ nodes = <<>>
        /\ parent = doc.parent
        /\ sceneKids = doc.sceneKids
        /\ donorKids = doc.donorKids
        /\ disposed = {}
        /\ local = doc.local
        /\ skeleton = None
        /\ joints = doc.joints
        /\ ibm = [j \in 1..Len(doc.joints) |-> Identity]
        /\ jointsIndex = <<>>
        /\ anims = doc.anims
        /\ i = 0
        /\ c = 0
        /\ bound = [nd \in 1..(doc.n + doc.d) |-> Undefined]
        /\ attrs = [pr \in AllPrims(doc) |-> [joints |-> <<>>, weights |-> <<>>]]
        /\ baked = [m \in MeshIds(doc) |-> <<>>]
        /\ allPrimitives = <<>>
        /\ atlasWidth = 0
        /\ uvRemaps = [pr \in AllPrims(doc) |-> <<>>]
        /\ composites = [pr \in AllPrims(doc) |-> {}]
        /\ written = FALSE

\* ------------------------------------------------------------ scene graph
\* node.getWorldMatrix()
RECURSIVE World(_, _, _)
World(par, loc, nd) ==
    IF par[nd] = None THEN loc[nd] ELSE Compose(World(par, loc, par[nd]), loc[nd])

\* The elements of a set of nodes in listed (increasing) order.
Listed(S) == SelectSeq([nd \in 1..(input.n + input.d) |-> nd], LAMBDA nd : nd \in S)

\* node.listChildren()
ListChildren(par, nd) == Listed({ch \in DOMAIN par : par[ch] = nd})

\* collectNodes(node, list), and its loop over a list of children: the nodes
\* each call pushes onto `list`, in the order it pushes them (a node, then its
\* children's subtrees from left to right; the loop is written as the first
\* half of the children followed by the second half).
RECURSIVE CollectNodes(_, _), CollectAll(_, _)
CollectNodes(par, nd) == <<nd>> \o CollectAll(par, ListChildren(par, nd))
CollectAll(par, children) ==
    IF children = <<>> THEN <<>>
    ELSE IF Len(children) = 1 THEN CollectNodes(par, children[1])
    ELSE LET half == Len(children) \div 2
         IN  CollectAll(par, SubSeq(children, 1, half))
                 \o CollectAll(par, SubSeq(children, half + 1, Len(children)))

\* A mutation: the donor scene's nodes are collected into the same list.
CollectedBothScenes == CollectAll(parent, Listed(sceneKids) \o donorKids)

\* The list `nodes`: the main scene's nodes in pre-order.
CollectedNodes == CollectAll(parent, Listed(sceneKids))

\* node.dispose(): the node leaves its parent and its children lose theirs
DisposeNode(par, nd) ==
    [x \in DOMAIN par |-> IF x = nd \/ par[x] = nd THEN None ELSE par[x]]

\* ---------------------------------------------------------------- actions
Fail(where) ==
    /\ pc' = "failed"
    /\ err' = where

\* lines 100-119
Collect ==
    /\ pc = "collect"
    /\ nodes' = CollectedNodes
    /\ pc' = "graft"
    /\ UNCHANGED <<input, err, parent, sceneKids, donorKids, disposed, local, skeleton,
                   joints, ibm, jointsIndex, anims, i, c, bound, attrs, baked,
                   allPrimitives, atlasWidth, uvRemaps, composites, written>>

\* sceneDonor.listChildren()[0]
SkinRoot == IF donorKids = <<>> THEN Undefined ELSE donorKids[1]

\* A mutation: addChild accepts an absent node.
AddChildAccepts(nd) == FALSE

\* scene.addChild(nd) reads nd.getParentNode() first: a TypeError on undefined
AddChildThrows(nd) == nd = Undefined

\* lines 122-131: reparent the donor skeleton, destroy the donor scene
Graft ==
    /\ pc = "graft"
    /\ IF AddChildThrows(SkinRoot)
       THEN /\ Fail("TypeError@125")
            /\ UNCHANGED <<sceneKids, skeleton, donorKids>>
       ELSE /\ sceneKids' = sceneKids \cup {SkinRoot}
            /\ skeleton' = SkinRoot
            /\ donorKids' = <<>>
            /\ pc' = "prune"
            /\ err' = err
    /\ UNCHANGED <<input, nodes, parent, disposed, local, joints, ibm, jointsIndex,
                   anims, i, c, bound, attrs, baked, allPrimitives, atlasWidth,
                   uvRemaps, composites, written>>

\* lines 136-140: name -> joint, the last joint of a name wins
JointByName(js) ==
    [nm \in {input.name[js[k]] : k \in 1..Len(js)} |->
        js[CHOOSE k \in 1..Len(js) :
              /\ input.name[js[k]] = nm
              /\ \A k2 \in 1..Len(js) : input.name[js[k2]] = nm => k2 <= k]]

\* A mutation: the joint stays in the skin's joint list.
RemoveJointNot(js, jt) == js

\* skin.removeJoint(joint)
RemoveJoint(js, jt) == SelectSeq(js, LAMBDA x : x # jt)

\* lines 142-151: the loop over jointsToRemove, from its k-th name on
RECURSIVE PruneFrom(_, _, _)
PruneFrom(st, index, k) ==
    IF k > Len(input.deny) THEN st
    ELSE LET jt == Lookup(index, input.deny[k])
         IN  IF jt = Undefined THEN PruneFrom(st, index, k + 1)
             ELSE IF st.parent[jt] = None THEN [st EXCEPT !.failed = TRUE]
             ELSE PruneFrom([parent    |-> DisposeNode(st.parent, jt),
                             joints    |-> RemoveJoint(st.joints, jt),
                             sceneKids |-> st.sceneKids \ {jt},
                             disposed  |-> st.disposed \cup {jt},
                             failed    |-> FALSE], index, k + 1)

\* lines 134-152: remove joints
PruneJoints ==
    /\ pc = "prune"
    /\ LET st == PruneFrom([parent |-> parent, joints |-> joints, sceneKids |-> sceneKids,
                            disposed |-> disposed, failed |-> FALSE],
                           JointByName(joints), 1)
       IN  /\ parent' = st.parent
           /\ joints' = st.joints
           /\ sceneKids' = st.sceneKids
           /\ disposed' = st.disposed
           /\ skeleton' = IF skeleton \in st.disposed THEN None ELSE skeleton
           /\ IF st.failed THEN Fail("TypeError@147") ELSE pc' = "recompute" /\ err' = err
    /\ UNCHANGED <<input, nodes, donorKids, local, ibm, jointsIndex, anims, i, c, bound,
                   attrs, baked, allPrimitives, atlasWidth, uvRemaps, composites, written>>

\* lines 155-164: recalculate inverse matrices
RecomputeInverseBind ==
    /\ pc = "recompute"
    /\ ibm' = [k \in 1..Len(joints) |-> Invert(World(parent, local, joints[k]))]
    /\ pc' = "index"
    /\ UNCHANGED <<input, err, nodes, parent, sceneKids, donorKids, disposed, local,
                   skeleton, joints, jointsIndex, anims, i, c, bound, attrs, baked,
                   allPrimitives, atlasWidth, uvRemaps, composites, written>>

\* lines 167-173: name -> index (from 0), the last joint of a name wins
IndexOfJoints(js) ==
    [nm \in {input.name[js[k]] : k \in 1..Len(js)} |->
        (CHOOSE k \in 1..Len(js) :
              /\ input.name[js[k]] = nm
              /\ \A k2 \in 1..Len(js) : input.name[js[k2]] = nm => k2 <= k) - 1]

\* lines 167-178: index joints; let i = animations.length
IndexJoints ==
    /\ pc = "index"
    /\ jointsIndex' = IndexOfJoints(joints)
    /\ i' = Len(anims)
    /\ pc' = "anims"
    /\ UNCHANGED <<input, err, nodes, parent, sceneKids, donorKids, disposed, local,
                   skeleton, joints, ibm, anims, c, bound, attrs, baked,
                   allPrimitives, atlasWidth, uvRemaps, composites, written>>

\* lines 179-181: while(i--), the channels of animation i
AnimationLoop ==
    /\ pc = "anims"
    /\ IF i = 0
       THEN pc' = "world" /\ c' = c
       ELSE pc' = "channels" /\ c' = Len(anims[i].channels)
    /\ UNCHANGED <<input, err, nodes, parent, sceneKids, donorKids, disposed, local,
                   skeleton, joints, ibm, jointsIndex, anims, i, bound, attrs, baked,
                   allPrimitives, atlasWidth, uvRemaps, composites, written>>

\* A mutation: the designated root node is treated like every other node.
ChannelOpNoRoot(targetName, path) == IF path # "rotation" THEN "remove" ELSE "keep"

\* lines 184-212: what the channel loop does to a channel
ChannelOp(targetName, path) ==
    IF targetName = "Controller-Global"
    THEN IF path = "scale" THEN "remove"
         ELSE IF path = "translation" THEN "rescale"
         ELSE "keep"
    ELSE IF path # "rotation" THEN "remove" ELSE "keep"

\* lines 182-213: one iteration of while(c--)
FilterChannel ==
    /\ pc = "channels"
    /\ c > 0
    /\ LET ch == input.anims[i].channels[c]
           op == ChannelOp(input.name[ch.target], ch.path)
       IN  anims' = [anims EXCEPT
              ![i].channels = IF op = "remove"
                              THEN SelectSeq(@, LAMBDA x : x.id # ch.id) ELSE @,
              ![i].samplers = IF op = "rescale"
                              THEN [@ EXCEPT ![ch.sampler] = ScaleVec(@)] ELSE @]
    /\ c' = c - 1
    /\ UNCHANGED <<input, pc, err, nodes, parent, sceneKids, donorKids, disposed, local,
                   skeleton, joints, ibm, jointsIndex, i, bound, attrs, baked,
                   allPrimitives, atlasWidth, uvRemaps, composites, written>>

\* lines 215-223: every sampler of the animation and the animation are disposed
DisposeAnimation ==
    /\ pc = "channels"
    /\ c = 0
    /\ anims' = [anims EXCEPT ![i] = [alive |-> FALSE, channels |-> <<>>, samplers |-> <<>>]]
    /\ i' = i - 1
    /\ pc' = "anims"
    /\ UNCHANGED <<input, err, nodes, parent, sceneKids, donorKids, disposed, local,
                   skeleton, joints, ibm, jointsIndex, c, bound, attrs, baked,
                   allPrimitives, atlasWidth, uvRemaps, composites, written>>

\* lines 228-230: the first collected node named World-Global or Root-Global
WorldNode ==
    LET hits == SelectSeq(nodes, LAMBDA nd : input.name[nd] \in {"World-Global", "Root-Global"})
    IN  IF hits = <<>> THEN Undefined ELSE hits[1]

\* lines 227-238: transform world node
ResetWorldNode ==
    /\ pc = "world"
    /\ local' = IF WorldNode = Undefined THEN local
                ELSE [local EXCEPT ![WorldNode].s = 1, ![WorldNode].r = 0]
    /\ pc' = "tpose"
    /\ UNCHANGED <<input, err, nodes, parent, sceneKids, donorKids, disposed, skeleton,
                   joints, ibm, jointsIndex, anims, i, c, bound, attrs, baked,
                   allPrimitives, atlasWidth, uvRemaps, composites, written>>

\* lines 243-257: the body of the T-pose loop for one node
TPoseOf(nd, tr) ==
    IF WorldNode # Undefined /\ input.name[nd] = input.name[WorldNode] THEN tr
    ELSE IF input.name[nd] \in DOMAIN TPoseData
         THEN [tr EXCEPT !.t = TPoseData[input.name[nd]].position,
                         !.r = TPoseData[input.name[nd]].rotation]
         ELSE [tr EXCEPT !.t = ScaleVec(tr.t)]

\* lines 241-258: transform skeleton to msquared T-Pose
TPose ==
    /\ pc = "tpose"
    /\ local' = [nd \in DOMAIN local |->
                   IF \E k \in 1..Len(nodes) : nodes[k] = nd
                   THEN TPoseOf(nd, local[nd]) ELSE local[nd]]
    /\ i' = 1
    /\ pc' = "meshes"
    /\ UNCHANGED <<input, err, nodes, parent, sceneKids, donorKids, disposed, skeleton,
                   joints, ibm, jointsIndex, anims, c, bound, attrs, baked,
                   allPrimitives, atlasWidth, uvRemaps, composites, written>>

\* node.getMesh(): a disposed node has lost its references
MeshOf(nd) == IF nd \in disposed THEN None ELSE input.mesh[nd]

\* positions.getCount() of primitive <<m, p>>
VertexCount(pr) == pr[2]

\* lines 279-290: walk up from parentNode to the first node mapped to a joint
RECURSIVE FindJoint(_, _)
FindJoint(par, parentNode) ==
    IF parentNode = None THEN Undefined
    ELSE LET index == Lookup(jointsIndex, LookupKey(JointsTuples, input.name[parentNode]))
         IN  IF index = Undefined THEN FindJoint(par, par[parentNode]) ELSE index

\* lines 309-315: the JOINTS_0 and WEIGHTS_0 arrays of a primitive
JointsArray(count, jointIndex) ==
    [w \in 1..(4 * count) |-> IF w % 4 = 1 THEN ToUint8(jointIndex) ELSE 0]
WeightsArray(count) ==
    [w \in 1..(4 * count) |-> IF w % 4 = 1 THEN 1 ELSE 0]

\* mat4.fromScaling([], [scale, scale, scale])
ScaleMatrix == [num |-> ScaleNum, den |-> ScaleDen]

\* lines 262-334: one iteration of the loop that processes meshes
ProcessNode ==
    /\ pc = "meshes"
    /\ i <= Len(nodes)
    /\ LET nd == nodes[i]
           mesh == MeshOf(nd)
           par == parent[nd]
           worldTransform == World(parent, local, nd)
           flat == [parent EXCEPT ![nd] = None]
           jointIndex == FindJoint(flat, par)
           count == IF jointIndex = Undefined THEN 0 ELSE Cardinality(Prims(mesh))
       IN  IF mesh # None
           THEN IF par = None
                THEN /\ Fail("TypeError@270")
                     /\ UNCHANGED <<parent, sceneKids, disposed, local, i, bound, attrs, baked>>
                ELSE /\ parent' = flat
                     /\ sceneKids' = sceneKids \cup {nd}
                     /\ local' = [local EXCEPT ![nd] = IF count > 0 THEN Identity
                                                       ELSE worldTransform]
                     /\ bound' = [bound EXCEPT ![nd] = jointIndex]
                     /\ attrs' = [pr \in DOMAIN attrs |->
                                     IF pr \in Prims(mesh) /\ jointIndex # Undefined
                                     THEN [joints  |-> JointsArray(VertexCount(pr), jointIndex),
                                           weights |-> WeightsArray(VertexCount(pr))]
                                     ELSE attrs[pr]]
                     /\ baked' = [baked EXCEPT ![mesh] =
                                     Append(@, [kind |-> "scale", node |-> nd, m |-> ScaleMatrix])
                                     \o [p \in 1..count |->
                                           [kind |-> "world", node |-> nd, m |-> worldTransform]]]
                     /\ i' = i + 1
                     /\ UNCHANGED <<pc, err, disposed>>
           ELSE IF EndsWith(input.name[nd], "-Local")
                THEN IF par = None
                     THEN /\ Fail("TypeError@330")
                          /\ UNCHANGED <<parent, sceneKids, disposed, local, i, bound,
                                         attrs, baked>>
                     ELSE /\ parent' = DisposeNode(parent, nd)
                          /\ sceneKids' = sceneKids \ {nd}
                          /\ disposed' = disposed \cup {nd}
                          /\ i' = i + 1
                          /\ UNCHANGED <<pc, err, local, bound, attrs, baked>>
                ELSE /\ i' = i + 1
                     /\ UNCHANGED <<pc, err, parent, sceneKids, disposed, local, bound,
                                    attrs, baked>>
    /\ UNCHANGED <<input, nodes, donorKids, skeleton, joints, ibm, jointsIndex, anims, c,
                   allPrimitives, atlasWidth, uvRemaps, composites, written>>

\* lines 337-350: delete old skeleton; if (merge)
DeleteOldSkeleton ==
    /\ pc = "meshes"
    /\ i > Len(nodes)
    /\ IF WorldNode = Undefined
       THEN UNCHANGED <<parent, sceneKids, disposed>>
       ELSE /\ parent' = DisposeNode(parent, WorldNode)
            /\ sceneKids' = sceneKids \ {WorldNode}
            /\ disposed' = disposed \cup {WorldNode}
    /\ pc' = IF input.merge THEN "collectPrimitives" ELSE "save"
    /\ UNCHANGED <<input, err, nodes, donorKids, local, skeleton, joints, ibm,
                   jointsIndex, anims, i, c, bound, attrs, baked, allPrimitives,
                   atlasWidth, uvRemaps, composites, written>>

\* lines 371-381: the primitives of the meshes of nodes[k..], appended to list
RECURSIVE CollectPrimitivesFrom(_, _)
CollectPrimitivesFrom(k, list) ==
    IF k > Len(nodes) THEN list
    ELSE LET mesh == MeshOf(nodes[k])
         IN  CollectPrimitivesFrom(k + 1,
                 IF mesh = None THEN list
                 ELSE list \o [p \in 1..Cardinality(Prims(mesh)) |-> <<mesh, p>>])

\* lines 351-386: collect primitives, calculate atlas params
CollectPrimitives ==
    /\ pc = "collectPrimitives"
    /\ allPrimitives' = CollectPrimitivesFrom(1, <<>>)
    /\ atlasWidth' = CeilSqrt(Len(allPrimitives'))
    /\ pc' = "uvs"
    /\ UNCHANGED <<input, err, nodes, parent, sceneKids, donorKids, disposed, local,
                   skeleton, joints, ibm, jointsIndex, anims, i, c, bound, attrs, baked,
                   uvRemaps, composites, written>>

\* the grid cell of a slot: col = slot % gridSide, row = slot / gridSide
AtlasCell(slot, gridSide) ==
    [slot |-> slot, row |-> slot \div gridSide, col |-> slot % gridSide]

\* lines 388-394: update UVs; slot k-1 for the k-th collected primitive
UpdateUVs ==
    /\ pc = "uvs"
    /\ uvRemaps' = [pr \in DOMAIN uvRemaps |->
                       LET ks == SelectSeq([k \in 1..Len(allPrimitives) |-> k],
                                           LAMBDA k : allPrimitives[k] = pr)
                       IN  [j \in 1..Len(ks) |-> AtlasCell(ks[j] - 1, atlasWidth)]]
    /\ pc' = "atlases"
    /\ UNCHANGED <<input, err, nodes, parent, sceneKids, donorKids, disposed, local,
                   skeleton, joints, ibm, jointsIndex, anims, i, c, bound, attrs, baked,
                   allPrimitives, atlasWidth, composites, written>>

\* lines 396-405: create atlases, copy textures into atlases
CopyTextures ==
    /\ pc = "atlases"
    /\ composites' = [pr \in DOMAIN composites |->
                        {AtlasCell(k - 1, atlasWidth) :
                            k \in {k2 \in 1..Len(allPrimitives) : allPrimitives[k2] = pr}}]
    /\ pc' = "join"
    /\ UNCHANGED <<input, err, nodes, parent, sceneKids, donorKids, disposed, local,
                   skeleton, joints, ibm, jointsIndex, anims, i, c, bound, attrs, baked,
                   allPrimitives, atlasWidth, uvRemaps, written>>

\* lines 407-425: join the primitives, remove old nodes and old meshes
JoinPrimitives ==
    /\ pc = "join"
    /\ LET old == {nodes[k] : k \in {k2 \in 1..Len(nodes) : MeshOf(nodes[k2]) # None}}
       IN  /\ parent' = [x \in DOMAIN parent |->
                            IF x \in old \/ parent[x] \in old THEN None ELSE parent[x]]
           /\ sceneKids' = sceneKids \ old
           /\ disposed' = disposed \cup old
    /\ pc' = "save"
    /\ UNCHANGED <<input, err, nodes, donorKids, local, skeleton, joints, ibm,
                   jointsIndex, anims, i, c, bound, attrs, baked, allPrimitives,
                   atlasWidth, uvRemaps, composites, written>>

\* lines 429-436: cleanup, save
Save ==
    /\ pc = "save"
    /\ written' = TRUE
    /\ pc' = "done"
    /\ UNCHANGED <<input, err, nodes, parent, sceneKids, donorKids, disposed, local,
                   skeleton, joints, ibm, jointsIndex, anims, i, c, bound, attrs, baked,
                   allPrimitives, atlasWidth, uvRemaps, composites>>

Next ==
    \/ Collect
    \/ Graft
    \/ PruneJoints
    \/ RecomputeInverseBind
    \/ IndexJoints
    \/ AnimationLoop
    \/ FilterChannel
    \/ DisposeAnimation
    \/ ResetWorldNode
    \/ TPose
    \/ ProcessNode
    \/ DeleteOldSkeleton
    \/ CollectPrimitives
    \/ UpdateUVs
    \/ CopyTextures
    \/ JoinPrimitives
    \/ Save

Spec == Init /\ [][Next]_vars

TypeOK ==
    /\ pc \in {"collect", "graft", "prune", "recompute", "index", "anims", "channels",
                "world", "tpose", "meshes", "collectPrimitives", "uvs", "atlases",
                "join", "save", "done", "failed"}
    /\ (pc = "failed") = (err # "none")

\* ----------------------------------------------------------------- claims
Range(f) == {f[k] : k \in DOMAIN f}

\* the root of a node's current parent chain
RECURSIVE RootOf(_, _)
RootOf(par, nd) == IF par[nd] = None THEN nd ELSE RootOf(par, par[nd])

\* the node is a descendant of the main scene
InScene(nd) == RootOf(parent, nd) \in sceneKids

\* the ancestors of a node in the loaded file, nearest first
RECURSIVE Lineage(_)
Lineage(nd) ==
    IF input.parent[nd] = None THEN <<>>
    ELSE <<input.parent[nd]>> \o Lineage(input.parent[nd])

AnimationsFiltered ==
    pc \in {"world", "tpose", "meshes", "collectPrimitives", "uvs", "atlases", "join",
            "save", "done"}

AfterRecompute == AnimationsFiltered \/ pc \in {"index", "anims", "channels"}

MeshesProcessed ==
    pc \in {"collectPrimitives", "uvs", "atlases", "join", "save", "done"}

\* the retention rule of the animation filter, as the specification words it
Retained(ch) ==
    IF input.name[ch.target] = "Controller-Global"
    THEN ch.path \in {"rotation", "translation"}
    ELSE ch.path = "rotation"

\* C1: once the filter has run, an animation that held a retained channel is
\* still in the document, with that channel and the sampler it reads.
C1_RetainedAnimationSurvives ==
    AnimationsFiltered =>
        \A a \in 1..Len(input.anims) :
            \A k \in 1..Len(input.anims[a].channels) :
                LET ch == input.anims[a].channels[k]
                IN  Retained(ch) =>
                      /\ anims[a].alive
                      /\ \E x \in Range(anims[a].channels) : x.id = ch.id
                      /\ ch.sampler \in DOMAIN anims[a].samplers

\* C2: while the channel loop runs over animation i, the channels it has
\* visited (those after position c) that remain are exactly the retained
\* ones: rotation and translation on Controller-Global, rotation elsewhere;
\* the channels not yet visited are untouched; the loop raises no error.
C2_ChannelFilterRule ==
    /\ pc = "channels" =>
          anims[i].channels =
              SelectSeq(input.anims[i].channels, LAMBDA ch : ch.id <= c \/ Retained(ch))
    /\ pc = "failed" =>
          err \in {"TypeError@125", "TypeError@147", "TypeError@270", "TypeError@330"}

\* C2 witness: the loop has finished an animation that held a translation and
\* a scale channel of Controller-Global, and only the translation is left,
\* after an animation whose translation channel of another node was deleted.
C2_Witness ==
    /\ pc = "channels"
    /\ c = 0
    /\ \E x \in Range(input.anims[i].channels) :
          input.name[x.target] = "Controller-Global" /\ x.path = "scale"
    /\ Len(anims[i].channels) = 1
    /\ input.name[anims[i].channels[1].target] = "Controller-Global"
    /\ anims[i].channels[1].path = "translation"

\* the joint index of the nearest mapped ancestor in the loaded lineage
RECURSIVE FirstMapped(_)
FirstMapped(line) ==
    IF line = <<>> THEN Undefined
    ELSE LET index == Lookup(jointsIndex, LookupKey(JointsTuples, input.name[Head(line)]))
         IN  IF index = Undefined THEN FirstMapped(Tail(line)) ELSE index

\* C3: every processed mesh node is bound to the joint mapped by its nearest
\* mapped ancestor in the lineage it had before any node was reparented, and
\* is unskinned only if that lineage holds no mapped ancestor.
C3_JointFromOriginalLineage ==
    (pc = "meshes" \/ MeshesProcessed) =>
        \A k \in 1..Len(nodes) :
            (k < i /\ input.mesh[nodes[k]] # None) =>
                bound[nodes[k]] = FirstMapped(Lineage(nodes[k]))

\* C4: the mesh of the node just skinned to joint index k holds [k,0,0,0] and
\* [1,0,0,0] for every vertex of every primitive.
C4_RigidAttributes ==
    (pc = "meshes" /\ i > 1 /\ bound[nodes[i - 1]] # Undefined) =>
        \A pr \in Prims(input.mesh[nodes[i - 1]]) :
            /\ attrs[pr].joints =
                  [w \in 1..(4 * VertexCount(pr)) |->
                      IF w % 4 = 1 THEN bound[nodes[i - 1]] ELSE 0]
            /\ attrs[pr].weights =
                  [w \in 1..(4 * VertexCount(pr)) |-> IF w % 4 = 1 THEN 1 ELSE 0]

\* how often transformMesh applied a matrix of a kind to a mesh for a node
Applied(m, kind, nd) ==
    Cardinality({k \in 1..Len(baked[m]) : baked[m][k].kind = kind /\ baked[m][k].node = nd})

\* C5: a skinned node's world transform is applied to its mesh exactly once,
\* and the down-scale is applied to every mesh at most once.
C5_TransformAppliedOnce ==
    (pc = "meshes" \/ MeshesProcessed) =>
        /\ \A k \in 1..Len(nodes) :
              (k < i /\ bound[nodes[k]] # Undefined) =>
                  Applied(input.mesh[nodes[k]], "world", nodes[k]) = 1
        /\ \A m \in DOMAIN baked :
              Cardinality({k \in 1..Len(baked[m]) : baked[m][k].kind = "scale"}) <= 1

DenySet == Range(input.deny)

PrunedCorrectly ==
    /\ Len(ibm) = Len(joints)
    /\ \A k \in 1..Len(joints) : input.name[joints[k]] \notin DenySet
    /\ \A r \in Range(input.joints) \cap disposed :
          r \notin Range(joints) /\ ~InScene(r)

\* C6 as claimed: for every skin and every deny list, after pruning and
\* recomputation there are as many matrices as joints, no remaining joint has
\* a deny-listed name and no removed joint is in the joint list or the scene.
C6_PrunedForEverySkin == AfterRecompute => PrunedCorrectly

UniqueJointNames ==
    \A j, k \in 1..Len(input.joints) :
        input.name[input.joints[j]] = input.name[input.joints[k]] => j = k

\* C6 as amended: the same, for every skin whose joint names are pairwise
\* distinct.
C6_PrunedForUniqueNames == (AfterRecompute /\ UniqueJointNames) => PrunedCorrectly

\* C6 witness: a skin of distinctly named joints lost a joint, kept others,
\* and the deny list also named a joint the skin never had.
C6_Witness ==
    /\ AfterRecompute
    /\ UniqueJointNames
    /\ Range(input.joints) \cap disposed # {}
    /\ joints # <<>>
    /\ \E nm \in DenySet : \A k \in 1..Len(input.joints) : input.name[input.joints[k]] # nm

\* C7: from the recomputation on, every stored matrix is the inverse of the
\* world transform of its joint, whatever the later steps changed.
C7_InverseBindStaysCurrent ==
    AfterRecompute =>
        /\ DOMAIN ibm = DOMAIN joints
        /\ \A k \in 1..Len(joints) : ibm[k] = Invert(World(parent, local, joints[k]))

\* C7 witness: the pipeline ended after a joint was pruned, a node transform
\* was edited and a mesh node was reparented and skinned.
C7_Witness ==
    /\ pc = "done"
    /\ joints # <<>>
    /\ Len(joints) < Len(input.joints)
    /\ \E nd \in 1..input.n : local[nd] # input.local[nd]
    /\ \E nd \in 1..input.n : bound[nd] # Undefined /\ parent[nd] # input.parent[nd]

\* the cells a primitive's UV sets were remapped into
Cells(pr) == Range(uvRemaps[pr])

\* C8: every collected primitive is collected once, has its UVs remapped once,
\* into a cell inside the grid that no other primitive has, and its textures
\* are copied to that same cell.
C8_OneSlotPerPrimitive ==
    pc \in {"join", "save", "done"} /\ input.merge =>
        \A pr \in Range(allPrimitives) :
            /\ Cardinality({k \in 1..Len(allPrimitives) : allPrimitives[k] = pr}) = 1
            /\ Len(uvRemaps[pr]) = 1
            /\ \A cell \in Cells(pr) : cell.row < atlasWidth /\ cell.col < atlasWidth
            /\ \A other \in Range(allPrimitives) \ {pr} : Cells(other) \cap Cells(pr) = {}
            /\ composites[pr] = Cells(pr)

\* C9: with an empty donor scene the pipeline stops at the graft: no skeleton
\* root is set, no joint is pruned, nothing is written.
C9_MissingDonorRootAborts ==
    input.donorKids = <<>> =>
        /\ pc \in {"collect", "graft", "failed"}
        /\ pc = "failed" => err = "TypeError@125"
        /\ skeleton = None
        /\ joints = input.joints
        /\ disposed = {}
        /\ ~written

\* C9 witness: the graft failed on an empty donor scene although the deny
\* list names a joint of the skin.
C9_Witness ==
    /\ input.donorKids = <<>>
    /\ pc = "failed"
    /\ err = "TypeError@125"
    /\ \E k \in 1..Len(joints) : input.name[joints[k]] \in DenySet

\* a meshless node named ...-Local
LocalOnly(nd) == input.mesh[nd] = None /\ EndsWith(input.name[nd], "-Local")

\* C10: after the traversal no node below a meshless -Local node is left in
\* the scene, and the traversal does not fail on a node below one.
C10_LocalSubtreeDeleted ==
    /\ MeshesProcessed =>
          \A nd \in 1..input.n :
              (LocalOnly(nd) \/ \E a \in Range(Lineage(nd)) : LocalOnly(a)) => ~InScene(nd)
    /\ (pc = "failed" /\ err \in {"TypeError@270", "TypeError@330"}) =>
          ~\E a \in Range(Lineage(nodes[i])) : LocalOnly(a)

====
